---- MODULE Spec2Model ----
(***************************************************************************)
(* WhatsApp webhook relay (drgoharyAI/WA_API).                             *)
(*                                                                         *)
(* The repository holds two variants of the same Express server:           *)
(*   src/unnamed/part_000   - routes on / and /webhook, early              *)
(*                            acknowledgment after a 500 ms timer          *)
(*   src/webhook_server.js  - routes on /webhook only, no acknowledgment   *)
(* Both are modelled; the variable `variant` says which one is running.    *)
(*                                                                         *)
(* One Node.js process, one event loop: an action is one run-to-completion *)
(* segment of JavaScript, from the event that resumes it to the next await *)
(* that has to wait for I/O or for the timer.                              *)
(***************************************************************************)
EXTENDS Integers, Sequences, FiniteSets, TLC

VARIABLES
    variant,      \* which source file is running
    rejections,   \* what the Node.js runtime does with an unhandled rejection
    verifyToken,  \* VERIFY_TOKEN, read from the environment at start-up
    crashed,      \* the process has exited on an uncaught error
    handlers,     \* one record per webhook POST being handled
    lastVerify    \* the last verification GET and its response

vars == <<variant, rejections, verifyToken, crashed, handlers, lastVerify>>

(***************************************************************************)
(* Bounds                                                                  *)
(***************************************************************************)
MaxHandlers == 2      \* webhook POSTs handled in one behaviour

(***************************************************************************)
(* JavaScript values, as far as the handlers look at them.  Every value is *)
(* a record [t, v]: t is the kind, v the content.                          *)
(***************************************************************************)
Absent == [t |-> "absent", v |-> <<>>]       \* undefined, a missing property
Null == [t |-> "null", v |-> <<>>]
Num(n) == [t |-> "num", v |-> n]
Str(s) == [t |-> "str", v |-> s]             \* s: a sequence of characters
List(l) == [t |-> "list", v |-> l]

\* The property names the code reads.
Keys ==
    {"entry", "changes", "value", "messages", "from", "id", "type", "text",
     "body", "ui_output_8", "overall_response"}

Obj(r) == [t |-> "obj", v |-> [k \in Keys |-> IF k \in DOMAIN r THEN r[k] ELSE Absent]]

EmptyObj == [t |-> "obj", v |-> [k \in Keys |-> Absent]]

\* x.k throws a TypeError when x is undefined or null.
Nullish(x) == x.t \in {"absent", "null"}

\* x.k for the keys above: only objects carry them.
Get(x, k) == IF x.t = "obj" THEN x.v[k] ELSE Absent

\* JavaScript truthiness.
Truthy(x) ==
    CASE x.t \in {"absent", "null"} -> FALSE
      [] x.t = "num" -> x.v # 0
      [] x.t = "str" -> x.v # <<>>
      [] OTHER -> TRUE

\* x || d
Or(x, d) == IF Truthy(x) THEN x ELSE d

\* for (const e of x) throws a TypeError unless x is an array or a string.
Iterable(x) == x.t \in {"list", "str"}

\* The elements for..of visits: the items of an array, the characters of a string.
Items(x) == IF x.t = "list" THEN x.v ELSE [i \in 1..Len(x.v) |-> Str(<<x.v[i]>>)]

(***************************************************************************)
(* Text: String.prototype.trim and the test /^\d{8}$/                      *)
(***************************************************************************)
CodeLen == 8

Digits == {"0", "1", "2", "3", "4", "5", "6", "7", "8", "9"}

WhiteSpace == {" ", "\n", "\t"}

RECURSIVE TrimStart(_)
TrimStart(s) ==
    IF s # <<>> /\ Head(s) \in WhiteSpace THEN TrimStart(Tail(s)) ELSE s

RECURSIVE TrimEnd(_)
TrimEnd(s) ==
    IF s # <<>> /\ s[Len(s)] \in WhiteSpace THEN TrimEnd(SubSeq(s, 1, Len(s) - 1)) ELSE s

trim(s) == TrimEnd(TrimStart(s))

\* Mutant: the pattern without its end anchor, /^\d{8}/.
IsApprovalNumberUnanchored(s) == Len(s) >= CodeLen /\ \A i \in 1..CodeLen : s[i] \in Digits

\* /^\d{8}$/.test(s)
IsApprovalNumber(s) == Len(s) = CodeLen /\ \A i \in 1..Len(s) : s[i] \in Digits

(***************************************************************************)
(* Outbound message bodies.  A body is a fixed bilingual template with     *)
(* values embedded in it: kind names the template, the other fields are    *)
(* the embedded values (glyphs are written by name).                       *)
(***************************************************************************)
NoMsg == [kind |-> "none", emoji |-> "", code |-> <<>>, status |-> <<>>, text |-> <<>>]

\* The body of the POST to PROCESSING_API_URL: {approval_number}.
processingRequest(approvalNumber) ==
    [kind |-> "process", emoji |-> "", code |-> approvalNumber, status |-> <<>>, text |-> <<>>]

acknowledgment(approvalNumber) ==
    [kind |-> "ack", emoji |-> "ROBOT", code |-> approvalNumber, status |-> <<>>, text |-> <<>>]

fallbackMessage(approvalNumber) ==
    [kind |-> "fallback", emoji |-> "", code |-> approvalNumber, status |-> <<>>, text |-> <<>>]

helpMessage ==
    [kind |-> "help", emoji |-> "WAVE", code |-> <<>>, status |-> <<>>, text |-> <<>>]

\* The two texts sendErrorMessage is called with.
FailedToProcess == <<"Failed to process request">>

AnErrorOccurred == <<"An error occurred">>

errorMessage(errorText) ==
    [kind |-> "error", emoji |-> "WARNING", code |-> <<>>, status |-> <<>>, text |-> errorText]

\* Names every object inherits from Object.prototype (two of them): the
\* lookup statusEmoji[overallResponse] finds them too, and finds a function.
ObjectPrototypeKeys ==
    {<<"v", "a", "l", "u", "e", "O", "f">>, <<"t", "o", "S", "t", "r", "i", "n", "g">>}

\* Mutant: the table with the glyphs of D and F exchanged.
statusEmojiExchanged(overallResponse) ==
    CASE overallResponse = <<"A">> -> "CHECK_MARK"
      [] overallResponse = <<"D">> -> "WARNING"
      [] overallResponse = <<"F">> -> "CROSS"
      [] overallResponse = <<"P">> -> "WARNING"
      [] overallResponse \in ObjectPrototypeKeys -> "NATIVE_FUNCTION_SOURCE"
      [] OTHER -> "CLIPBOARD"

\* statusEmoji[overallResponse] || CLIPBOARD
statusEmoji(overallResponse) ==
    CASE overallResponse = <<"A">> -> "CHECK_MARK"
      [] overallResponse = <<"D">> -> "CROSS"
      [] overallResponse = <<"F">> -> "WARNING"
      [] overallResponse = <<"P">> -> "WARNING"
      [] overallResponse \in ObjectPrototypeKeys -> "NATIVE_FUNCTION_SOURCE"
      [] OTHER -> "CLIPBOARD"

formatResponseMessage(approvalNumber, csMessage, overallResponse) ==
    [kind |-> "result", emoji |-> statusEmoji(overallResponse), code |-> approvalNumber,
     status |-> overallResponse, text |-> csMessage]

(***************************************************************************)
(* Extraction: the nested loops of the POST handler, as the list of calls  *)
(* to processIncomingMessage they make, in order, and whether they end in  *)
(* a TypeError (which the handler's catch then logs).                      *)
(***************************************************************************)
TEXT == <<"t", "e", "x", "t">>

NoCalls == [calls |-> <<>>, err |-> FALSE]

Threw == [calls |-> <<>>, err |-> TRUE]

\* r1, and r2 after it unless r1 threw.
Then(r1, r2) == IF r1.err THEN r1 ELSE [calls |-> r1.calls \o r2.calls, err |-> r2.err]

\* Mutant: the loop without its test of the message type.
ForMessageAnyType(message) ==
    IF Nullish(message) THEN Threw
    ELSE [calls |-> <<[from |-> Get(message, "from"),
                       text |-> Or(Get(Get(message, "text"), "body"), Str(<<>>))]>>,
          err |-> FALSE]

ForMessage(message) ==
    IF Nullish(message) THEN Threw
    ELSE IF ~(Get(message, "type").t = "str" /\ Get(message, "type").v = TEXT) THEN NoCalls
    ELSE [calls |-> <<[from |-> Get(message, "from"),
                       text |-> Or(Get(Get(message, "text"), "body"), Str(<<>>))]>>,
          err |-> FALSE]

RECURSIVE ForMessages(_)
ForMessages(ms) ==
    IF Len(ms) = 0 THEN NoCalls ELSE Then(ForMessage(Head(ms)), ForMessages(Tail(ms)))

ForChange(change) ==
    IF Nullish(change) THEN Threw
    ELSE LET value == Or(Get(change, "value"), EmptyObj)
             messages == Or(Get(value, "messages"), List(<<>>))
         IN  IF Iterable(messages) THEN ForMessages(Items(messages)) ELSE Threw

RECURSIVE ForChanges(_)
ForChanges(cs) ==
    IF Len(cs) = 0 THEN NoCalls ELSE Then(ForChange(Head(cs)), ForChanges(Tail(cs)))

ForEntry(entry) ==
    IF Nullish(entry) THEN Threw
    ELSE LET changes == Or(Get(entry, "changes"), List(<<>>))
         IN  IF Iterable(changes) THEN ForChanges(Items(changes)) ELSE Threw

RECURSIVE ForEntries(_)
ForEntries(es) ==
    IF Len(es) = 0 THEN NoCalls ELSE Then(ForEntry(Head(es)), ForEntries(Tail(es)))

Extract(data) ==
    IF Nullish(data) THEN Threw
    ELSE IF ~Truthy(Get(data, "entry")) THEN NoCalls
    ELSE IF Iterable(Get(data, "entry")) THEN ForEntries(Items(Get(data, "entry")))
    ELSE Threw

(***************************************************************************)
(* The state of one webhook POST.                                          *)
(*   hst    idle (not received yet), active, done                          *)
(*   resp   the HTTP responses written to the caller, in order             *)
(*   todo   the calls to processIncomingMessage the loops have yet to make *)
(*   threw  the loops end in a TypeError once todo is used up              *)
(*   caught the handler's catch block has run                              *)
(*   runs   the calls to processIncomingMessage made so far, with the      *)
(*          outcome of each one's processing call                          *)
(*   pc     where the current run waits: delay (the 500 ms timer),         *)
(*          sending (a delivery POST), awaitApi (the processing POST)      *)
(*   after  what follows the delivery being waited for                     *)
(*   api    the promise of the current run's processing call               *)
(*   settledAt  what the run was waiting for when that promise was settled: *)
(*          delay, ack (the acknowledgment's delivery) or awaitApi          *)
(*   code   the current run's approvalNumber                               *)
(*   log    what the handler did and what came back to it, in order: e is  *)
(*          the event, run the call of processIncomingMessage it belongs   *)
(*          to, res the outcome of a delivery POST that came to an end     *)
(***************************************************************************)
NoOutcome == [ok |-> FALSE, why |-> "none", data |-> Absent]

Resolved(data) == [ok |-> TRUE, why |-> "", data |-> data]

Rejected(why) == [ok |-> FALSE, why |-> why, data |-> Absent]

\* timeout: 60000 expired; network: no response; status: a non-2xx response
ApiFailures == {"timeout", "network", "status"}

\* What a delivery POST can come to: status 200, another 2xx status, a rejection.
DeliveryOutcomes == {"200", "2xx", "error"}

IdleHandler ==
    [hst |-> "idle", path |-> "", data |-> Absent, resp |-> <<>>, todo |-> <<>>,
     threw |-> FALSE, caught |-> FALSE, runs |-> <<>>, pc |-> "none", after |-> "none",
     api |-> "none", settledAt |-> "none", code |-> <<>>, log |-> <<>>]

Success200 == [status |-> 200, body |-> "{status:success}"]

NotFound404 == [status |-> 404, body |-> "Cannot POST"]

Emit(s, e, to, msg) ==
    [s EXCEPT !.log = Append(@, [e |-> e, run |-> Len(s.runs), to |-> to, msg |-> msg,
                                 res |-> ""])]

\* The arguments of the current run.
phoneNumber(s) == s.runs[Len(s.runs)].from

(***************************************************************************)
(* sendResponseMessage, to its await of the delivery POST.  What follows   *)
(* the await only logs: no outcome of the POST leaves the function.        *)
(***************************************************************************)
sendResponseMessage(s, to, message, then) ==
    [Emit(s, "send", to, message) EXCEPT !.pc = "sending", !.after = then]

sendHelpMessage(s, to) == sendResponseMessage(s, to, helpMessage, "return")

sendErrorMessage(s, to, errorText) ==
    sendResponseMessage(s, to, errorMessage(errorText), "return")

(***************************************************************************)
(* processIncomingMessage, from the call to its first await.               *)
(*   part_000:        the processing POST is started and the 500 ms timer  *)
(*                    awaited; nothing listens to the POST's promise yet   *)
(*   webhook_server:  the processing POST is started and awaited at once   *)
(***************************************************************************)
\* Mutant: the processing call awaited at once, as in webhook_server.js.
StartProcessingAwaitsAtOnce(s, approvalNumber, v) ==
    [Emit(s, "process", Absent, processingRequest(approvalNumber))
        EXCEPT !.api = "pending", !.code = approvalNumber, !.pc = "awaitApi"]

StartProcessing(s, approvalNumber, v) ==
    [Emit(s, "process", Absent, processingRequest(approvalNumber))
        EXCEPT !.api = "pending", !.code = approvalNumber,
               !.pc = IF v = "part_000" THEN "delay" ELSE "awaitApi"]

\* Mutant: processIncomingMessage without its outer catch; the TypeError of
\* trim reaches the handler's catch block.
processIncomingMessageNoOuterCatch(s, from, messageText, v) ==
    LET s1 == Emit([s EXCEPT !.runs = Append(@, [from |-> from, text |-> messageText,
                                                 out |-> NoOutcome])],
                   "invoke", from, NoMsg)
    IN  IF messageText.t # "str"
        THEN [Emit(s1, "caught", Absent, NoMsg)
                 EXCEPT !.hst = "done", !.pc = "none", !.caught = TRUE]
        ELSE IF ~IsApprovalNumber(trim(messageText.v))
        THEN sendHelpMessage(s1, from)
        ELSE StartProcessing(s1, trim(messageText.v), v)

processIncomingMessage(s, from, messageText, v) ==
    LET s1 == Emit([s EXCEPT !.runs = Append(@, [from |-> from, text |-> messageText,
                                                 out |-> NoOutcome])],
                   "invoke", from, NoMsg)
    IN  IF messageText.t # "str"
        THEN \* messageText.trim is not a function: the outer catch
             sendErrorMessage(s1, from, AnErrorOccurred)
        ELSE IF ~IsApprovalNumber(trim(messageText.v))
        THEN sendHelpMessage(s1, from)
        ELSE StartProcessing(s1, trim(messageText.v), v)

\* Mutant: a catch block that answers 500.
NextMessageRespondsOnError(s, v) ==
    IF Len(s.todo) > 0
    THEN processIncomingMessage([s EXCEPT !.todo = Tail(@)],
                                Head(s.todo).from, Head(s.todo).text, v)
    ELSE IF s.threw
    THEN [Emit(s, "caught", Absent, NoMsg)
             EXCEPT !.hst = "done", !.pc = "none", !.caught = TRUE,
                    !.resp = Append(@, [status |-> 500, body |-> "{status:error}"])]
    ELSE [s EXCEPT !.hst = "done", !.pc = "none"]

(***************************************************************************)
(* The loops of the POST handler, from one call of processIncomingMessage  *)
(* to the next, or to the handler's end.                                   *)
(***************************************************************************)
NextMessage(s, v) ==
    IF Len(s.todo) > 0
    THEN processIncomingMessage([s EXCEPT !.todo = Tail(@)],
                                Head(s.todo).from, Head(s.todo).text, v)
    ELSE IF s.threw
    THEN [Emit(s, "caught", Absent, NoMsg) EXCEPT !.hst = "done", !.pc = "none", !.caught = TRUE]
    ELSE [s EXCEPT !.hst = "done", !.pc = "none"]

\* processIncomingMessage returns: the handler's await of it ends.
Return(s, v) ==
    NextMessage([Emit(s, "return", Absent, NoMsg)
                    EXCEPT !.api = "none", !.settledAt = "none", !.code = <<>>,
                           !.after = "none"], v)

\* Mutant: the response written after the messages have been dispatched.
handleIncomingWebhookRespondsLast(s, data, v) ==
    LET s1 == NextMessage([s EXCEPT !.hst = "active", !.data = data,
                                    !.todo = Extract(data).calls, !.threw = Extract(data).err], v)
    IN  Emit([s1 EXCEPT !.resp = Append(@, Success200)], "respond", Absent, NoMsg)

\* The POST handler, from the request to its first await.
handleIncomingWebhook(s, data, v) ==
    LET s1 == Emit([s EXCEPT !.hst = "active", !.data = data,
                             !.resp = Append(@, Success200)],
                   "respond", Absent, NoMsg)
    IN  NextMessage([s1 EXCEPT !.todo = Extract(data).calls, !.threw = Extract(data).err], v)

\* Mutant: a result is taken as well-formed without a look at its summary.
OnApiSettledNoSummaryCheck(s, out) ==
    LET to == s.runs[Len(s.runs)].from
        result == out.data
    IN  IF ~out.ok
        THEN sendResponseMessage(s, to, fallbackMessage(s.code), "return")
        ELSE IF Truthy(result)
        THEN sendResponseMessage(s, to,
                 formatResponseMessage(s.code, Get(result, "ui_output_8").v,
                                       Or(Get(result, "overall_response"), Str(<<"A">>)).v),
                 "return")
        ELSE sendErrorMessage(s, to, FailedToProcess)

(***************************************************************************)
(* What follows `await apiPromise` once the promise is settled.            *)
(***************************************************************************)
OnApiSettled(s, out) ==
    LET to == phoneNumber(s)
        result == out.data
    IN  IF ~out.ok
        THEN sendResponseMessage(s, to, fallbackMessage(s.code), "return")
        ELSE IF Truthy(result) /\ Truthy(Get(result, "ui_output_8"))
        THEN sendResponseMessage(s, to,
                 formatResponseMessage(s.code, Get(result, "ui_output_8").v,
                                       Or(Get(result, "overall_response"), Str(<<"A">>)).v),
                 "return")
        ELSE sendErrorMessage(s, to, FailedToProcess)

\* Mutant: a rejected call is issued again.
AwaitApiRetries(s) ==
    IF s.api = "pending" THEN [s EXCEPT !.pc = "awaitApi", !.after = "none"]
    ELSE IF s.api = "rejected"
    THEN [Emit(s, "process", Absent, processingRequest(s.code))
             EXCEPT !.api = "pending", !.pc = "awaitApi", !.after = "none"]
    ELSE OnApiSettled([s EXCEPT !.after = "none"], s.runs[Len(s.runs)].out)

\* The run reaches `await apiPromise`: from here on the promise has a handler.
AwaitApi(s) ==
    IF s.api = "pending" THEN [s EXCEPT !.pc = "awaitApi", !.after = "none"]
    ELSE OnApiSettled([s EXCEPT !.after = "none"], s.runs[Len(s.runs)].out)

\* Mutant: sendResponseMessage without its catch block; the error of a
\* delivery POST ends the step that was waiting for it.
AbsorbRaises(s, outcome) ==
    [s EXCEPT !.after = IF outcome = "error" THEN "return" ELSE @,
              !.log = Append(@, [e |-> "delivered", run |-> Len(s.runs), to |-> Absent,
                                 msg |-> NoMsg, res |-> outcome])]

(***************************************************************************)
(* sendResponseMessage, after its await of the delivery POST: status 200,  *)
(* another status and a rejection are logged, and the function returns     *)
(* normally in all three cases.                                            *)
(***************************************************************************)
Absorb(s, outcome) ==
    [s EXCEPT !.log = Append(@, [e |-> "delivered", run |-> Len(s.runs), to |-> Absent,
                                 msg |-> NoMsg, res |-> outcome])]

\* Mutant: the run returns after the acknowledgment, without an await of
\* the processing call.
AfterDeliveryReturnsEarly(s, outcome, v) == Return(Absorb(s, outcome), v)

(***************************************************************************)
(* What follows a delivery POST: the run goes on to `await apiPromise`     *)
(* after the acknowledgment, and returns after any other message.          *)
(***************************************************************************)
AfterDelivery(s, outcome, v) ==
    IF Absorb(s, outcome).after = "awaitApi"
    THEN AwaitApi(Absorb(s, outcome))
    ELSE Return(Absorb(s, outcome), v)

\* The processing POST comes to an end: its promise is settled, while the run
\* waits for the timer, for the acknowledgment's delivery, or for the promise.
Settle(s, out) ==
    [s EXCEPT !.runs[Len(s.runs)].out = out,
              !.api = IF out.ok THEN "resolved" ELSE "rejected",
              !.settledAt = IF s.pc = "sending" THEN "ack" ELSE s.pc]

(***************************************************************************)
(* Routes and verification                                                 *)
(***************************************************************************)
Variants == {"part_000", "webhook_server"}

Paths == {"/", "/webhook"}

\* app.get(...) / app.post(...): the paths the handlers are registered on.
Routes(v) == IF v = "part_000" THEN {"/", "/webhook"} ELSE {"/webhook"}

DefaultToken == "wa_api_2026"

\* A query parameter that the request does not carry.
NoParam == "(absent)"

handleVerification(mode, token, challenge, VERIFY_TOKEN) ==
    IF mode = "subscribe" /\ token = VERIFY_TOKEN
    THEN [status |-> 200, body |-> IF challenge = NoParam THEN "" ELSE challenge]
    ELSE [status |-> 403, body |-> "Verification failed"]

NoVerify ==
    [path |-> "", mode |-> NoParam, token |-> NoParam, challenge |-> NoParam,
     status |-> 0, body |-> ""]

(***************************************************************************)
(* Inputs                                                                  *)
(***************************************************************************)
Sender1 == <<"9", "6", "6", "1">>

Sender2 == <<"9", "6", "6", "2">>

Code1 == <<"8", "8", "8", "2", "5", "4", "8", "1">>

Code2 == <<"1", "2", "3", "4", "5", "6", "7", "8">>

TextMessage(from, body) ==
    Obj([from |-> Str(from), id |-> Str(<<"w">>), type |-> Str(TEXT),
         text |-> Obj([body |-> body])])

ImageMessage(from) ==
    Obj([from |-> Str(from), id |-> Str(<<"w">>), type |-> Str(<<"i", "m", "g">>)])

Change(messages) == Obj([value |-> Obj([messages |-> messages])])

Entry(changes) == Obj([id |-> Str(<<"e">>), changes |-> changes])

\* A notification of the platform's shape: one entry, one change.
Notification(messages) ==
    Obj([entry |-> List(<<Entry(List(<<Change(List(messages))>>))>>)])

\* Text bodies.
Bodies ==
    <<Str(Code1),                                   \* 8 digits
      Str(<<" ">> \o Code2 \o <<"\n">>),            \* 8 digits in white space
      Str(SubSeq(Code1, 1, 7)),                     \* 7 digits
      Str(Code1 \o <<"0">>),                        \* 9 digits
      Str(<<"8", "8", "8", "2", "a", "4", "8", "1">>),
      Str(<<"8", "8", "8", "2", " ", "5", "4", "8", "1">>),
      Str(<<" ", " ">>),
      Absent,                                       \* text.body missing
      Num(88825481),                                \* a JSON number
      List(<<Str(Code1)>>)>>                        \* a JSON array

\* Notifications of the expected shape, with levels missing here and there.
WellFormed ==
    [i \in 1..Len(Bodies) |-> Notification(<<TextMessage(Sender1, Bodies[i])>>)]
    \o
    <<Notification(<<TextMessage(Sender1, Str(Code1)), TextMessage(Sender2, Str(Code2))>>),
      Notification(<<ImageMessage(Sender1), TextMessage(Sender2, Str(Code2))>>),
      Notification(<<ImageMessage(Sender1)>>),
      Obj([entry |-> List(<<Entry(List(<<Change(List(<<TextMessage(Sender1, Str(Code1))>>))>>)),
                            Entry(List(<<Change(List(<<TextMessage(Sender2, Str(<<"h", "i">>))>>))>>))>>)]),
      Obj([entry |-> List(<<Entry(List(<<Change(List(<<TextMessage(Sender1, Str(<<"h", "i">>))>>)),
                                         Change(List(<<TextMessage(Sender2, Str(Code2))>>))>>))>>)]),
      EmptyObj,                                                     \* no entry
      Obj([entry |-> List(<<>>)]),
      Obj([entry |-> List(<<Obj([id |-> Str(<<"e">>)])>>)]),        \* no changes
      Obj([entry |-> List(<<Entry(List(<<EmptyObj>>))>>)]),         \* no value
      Obj([entry |-> List(<<Entry(List(<<Obj([value |-> EmptyObj])>>))>>)]),  \* no messages
      Notification(<<Obj([from |-> Str(Sender1), type |-> Str(TEXT)])>>)>>    \* no text

\* Notifications with a level of the wrong kind.
Malformed ==
    <<Absent,                                                       \* no body at all
      List(<<>>),                                                   \* a JSON array
      Obj([entry |-> Num(5)]),
      Obj([entry |-> Str(<<"a", "b">>)]),
      Obj([entry |-> List(<<Null>>)]),
      Obj([entry |-> List(<<Entry(List(<<Change(List(<<TextMessage(Sender1, Str(Code1))>>))>>)),
                            Null>>)]),
      Obj([entry |-> List(<<Entry(Num(1))>>)]),
      Obj([entry |-> List(<<Entry(List(<<Null>>))>>)]),
      Obj([entry |-> List(<<Entry(List(<<Obj([value |-> Num(7)])>>))>>)]),
      Obj([entry |-> List(<<Entry(List(<<Change(Num(3))>>))>>)]),
      Notification(<<TextMessage(Sender1, Str(<<"h", "i">>)), Null>>),
      Notification(<<Num(4), TextMessage(Sender1, Str(Code1))>>)>>

AllPayloads == WellFormed \o Malformed

Summary == <<"o", "k">>

Result(status) == Obj([ui_output_8 |-> Str(Summary), overall_response |-> status])

\* What the processing endpoint can answer with a 2xx status (response.data).
AllResults ==
    <<Result(Str(<<"A">>)), Result(Str(<<"D">>)), Result(Str(<<"F">>)), Result(Str(<<"P">>)),
      Result(Str(<<"Z">>)), Result(Str(<<"a">>)), Result(Str(<<>>)), Result(Absent),
      Result(Null), Result(Str(<<"v", "a", "l", "u", "e", "O", "f">>)),
      Obj([overall_response |-> Str(<<"A">>)]),
      Obj([ui_output_8 |-> Str(<<>>), overall_response |-> Str(<<"A">>)]),
      Obj([ui_output_8 |-> Null, overall_response |-> Str(<<"D">>)]),
      Null,
      Str(<<>>),
      Str(<<"O", "K">>)>>

(***************************************************************************)
(* Initial state                                                           *)
(***************************************************************************)
Handlers == 1..MaxHandlers

Init ==
    /\ variant \in Variants
    /\ rejections \in {"warn", "throw"}
    /\ verifyToken = DefaultToken
    /\ crashed = FALSE
    /\ handlers = [h \in Handlers |-> IdleHandler]
    /\ lastVerify = NoVerify

(***************************************************************************)
(* Actions                                                                 *)
(***************************************************************************)
\* POST path with body P[i].  Handlers are numbered in the order of arrival.
Receive(h, P) ==
    /\ ~crashed
    /\ handlers[h].hst = "idle"
    /\ h > 1 => handlers[h - 1].hst # "idle"
    /\ \E i \in 1..Len(P), path \in Paths :
          handlers' = [handlers EXCEPT ![h] =
                          IF path \in Routes(variant)
                          THEN handleIncomingWebhook(@, P[i], variant)
                          ELSE [@ EXCEPT !.hst = "done", !.resp = <<NotFound404>>]]
    /\ UNCHANGED <<variant, rejections, verifyToken, crashed, lastVerify>>

\* setTimeout(resolve, 500) fires: the acknowledgment is sent.
TimerFires(h) ==
    /\ ~crashed
    /\ handlers[h].pc = "delay"
    /\ handlers' = [handlers EXCEPT ![h] =
                       sendResponseMessage(Emit(@, "timer", Absent, NoMsg), phoneNumber(@),
                                           acknowledgment(@.code), "awaitApi")]
    /\ UNCHANGED <<variant, rejections, verifyToken, crashed, lastVerify>>

\* The delivery POST that sendResponseMessage awaits comes to an end.
DeliveryCompletes(h, D) ==
    /\ ~crashed
    /\ handlers[h].pc = "sending"
    /\ \E outcome \in D :
          handlers' = [handlers EXCEPT ![h] = AfterDelivery(@, outcome, variant)]
    /\ UNCHANGED <<variant, rejections, verifyToken, crashed, lastVerify>>

\* The processing POST settles while the run awaits it.
ApiSettlesAwaited(h, R, F) ==
    /\ ~crashed
    /\ handlers[h].api = "pending"
    /\ handlers[h].pc = "awaitApi"
    /\ \/ \E i \in 1..Len(R) :
            handlers' = [handlers EXCEPT ![h] = OnApiSettled(Settle(@, Resolved(R[i])), Resolved(R[i]))]
       \/ \E why \in F :
            handlers' = [handlers EXCEPT ![h] = OnApiSettled(Settle(@, Rejected(why)), Rejected(why))]
    /\ UNCHANGED <<variant, rejections, verifyToken, crashed, lastVerify>>

\* The processing POST is fulfilled before the run awaits it.
ApiResolvesEarly(h, R) ==
    /\ ~crashed
    /\ handlers[h].api = "pending"
    /\ handlers[h].pc # "awaitApi"
    /\ \E i \in 1..Len(R) :
          handlers' = [handlers EXCEPT ![h] = Settle(@, Resolved(R[i]))]
    /\ UNCHANGED <<variant, rejections, verifyToken, crashed, lastVerify>>

\* The processing POST is rejected before the run awaits it: the promise has
\* no handler.  A runtime that only warns goes on; one that throws ends the
\* process (the default since Node.js 15).
ApiRejectsEarly(h, F) ==
    /\ ~crashed
    /\ handlers[h].api = "pending"
    /\ handlers[h].pc # "awaitApi"
    /\ \E why \in F :
          handlers' = [handlers EXCEPT ![h] = Settle(@, Rejected(why))]
    /\ crashed' = (rejections = "throw")
    /\ UNCHANGED <<variant, rejections, verifyToken, lastVerify>>

\* GET path?hub.mode=..&hub.verify_token=..&hub.challenge=..
Verify(path, mode, token, challenge) ==
    /\ ~crashed
    /\ lastVerify' =
          IF path \in Routes(variant)
          THEN [path |-> path, mode |-> mode, token |-> token, challenge |-> challenge,
                status |-> handleVerification(mode, token, challenge, verifyToken).status,
                body |-> handleVerification(mode, token, challenge, verifyToken).body]
          ELSE [path |-> path, mode |-> mode, token |-> token, challenge |-> challenge,
                status |-> 404, body |-> "Cannot GET"]
    /\ UNCHANGED <<variant, rejections, verifyToken, crashed, handlers>>

(***************************************************************************)
(* Specifications                                                          *)
(*   Spec        several notifications in flight at once, over a few       *)
(*               payloads and processing results                           *)
(*   SpecShapes  one notification, over every payload shape and every      *)
(*               processing result                                         *)
(*   SpecLive    one notification, with the timer and the HTTP calls fair  *)
(*   SpecPair    two notifications in flight at once, one message each,    *)
(*               with failing processing calls and failing deliveries     *)
(*   SpecVerify  the verification GET, over every configured token         *)
(***************************************************************************)
CorePayloads ==
    <<Notification(<<TextMessage(Sender1, Str(Code1)), TextMessage(Sender2, Str(Code2))>>),
      Notification(<<TextMessage(Sender2, Str(<<"h", "i">>))>>)>>

CoreResults == <<Result(Str(<<"A">>))>>

CoreFailures == {"timeout"}

CoreDeliveries == {"200"}

Next ==
    \E h \in Handlers :
        \/ Receive(h, CorePayloads)
        \/ TimerFires(h)
        \/ DeliveryCompletes(h, CoreDeliveries)
        \/ ApiSettlesAwaited(h, CoreResults, CoreFailures)
        \/ ApiResolvesEarly(h, CoreResults)
        \/ ApiRejectsEarly(h, CoreFailures)

Spec == Init /\ [][Next]_vars

NextShapes ==
    \/ Receive(1, AllPayloads)
    \/ TimerFires(1)
    \/ DeliveryCompletes(1, DeliveryOutcomes)
    \/ ApiSettlesAwaited(1, AllResults, ApiFailures)
    \/ ApiResolvesEarly(1, AllResults)
    \/ ApiRejectsEarly(1, ApiFailures)

SpecShapes == Init /\ [][NextShapes]_vars

\* One notification, under the assumption that what can happen does: the
\* timer fires, and every HTTP call comes to an end (axios gives each one a
\* timeout: 60000 for the processing call, 30000 for a delivery).
ApiSettles(h, R, F) ==
    \/ ApiSettlesAwaited(h, R, F)
    \/ ApiResolvesEarly(h, R)
    \/ ApiRejectsEarly(h, F)

NextLive ==
    \/ Receive(1, CorePayloads)
    \/ TimerFires(1)
    \/ DeliveryCompletes(1, DeliveryOutcomes)
    \/ ApiSettles(1, CoreResults, ApiFailures)

SpecLive ==
    /\ Init
    /\ [][NextLive]_vars
    /\ WF_vars(TimerFires(1))
    /\ WF_vars(DeliveryCompletes(1, DeliveryOutcomes))
    /\ WF_vars(ApiSettles(1, CoreResults, ApiFailures))

\* Two notifications of one text message each, from different senders, with
\* deliveries that succeed or fail.
PairPayloads ==
    <<Notification(<<TextMessage(Sender1, Str(Code1))>>),
      Notification(<<TextMessage(Sender2, Str(Code2))>>)>>

NextPair ==
    \E h \in {1, 2} :
        \/ Receive(h, PairPayloads)
        \/ TimerFires(h)
        \/ DeliveryCompletes(h, {"200", "error"})
        \/ ApiSettlesAwaited(h, CoreResults, CoreFailures)
        \/ ApiResolvesEarly(h, CoreResults)
        \/ ApiRejectsEarly(h, CoreFailures)

SpecPair == Init /\ [][NextPair]_vars

Tokens == {DefaultToken, "s3cret"}

Modes == {NoParam, "subscribe", "unsubscribe", "Subscribe"}

TokensGiven == {NoParam, "subscribe", ""} \cup Tokens

Challenges == {NoParam, "", "c-123", "1158201444"}

InitVerify ==
    /\ variant \in Variants
    /\ rejections \in {"warn", "throw"}
    /\ verifyToken \in Tokens
    /\ crashed = FALSE
    /\ handlers = [h \in Handlers |-> IdleHandler]
    /\ lastVerify = NoVerify

NextVerify ==
    \E path \in Paths, mode \in Modes, token \in TokensGiven, challenge \in Challenges :
        Verify(path, mode, token, challenge)

SpecVerify == InitVerify /\ [][NextVerify]_vars

(***************************************************************************)
(* Reading a handler's log                                                 *)
(***************************************************************************)
EventsOf(s, k, e) == SelectSeq(s.log, LAMBDA x : x.run = k /\ x.e = e)

SendsOf(s, k) == EventsOf(s, k, "send")

KindCount(s, k, kinds) ==
    Len(SelectSeq(s.log, LAMBDA x : x.run = k /\ x.e = "send" /\ x.msg.kind \in kinds))

FinalKinds == {"result", "error", "fallback"}

\* processIncomingMessage number k has returned.
Returned(s, k) == Len(EventsOf(s, k, "return")) > 0

\* The process has exited on the rejection of run k's processing call, which
\* came before the run awaited the call.
CrashedIn(s, k) ==
    /\ crashed
    /\ k = Len(s.runs)
    /\ s.api = "rejected"
    /\ (s.pc = "delay" \/ s.after = "awaitApi")

\* Run k will do nothing more: it has returned, or it has ended the process.
RunOver(s, k) == Returned(s, k) \/ CrashedIn(s, k)

\* Where the 8 digits begin in a text that is 8 digits inside white space.
PadSplit(t) ==
    {i \in 0..Len(t) :
        /\ i + CodeLen <= Len(t)
        /\ \A j \in 1..i : t[j] \in WhiteSpace
        /\ \A j \in (i + 1)..(i + CodeLen) : t[j] \in Digits
        /\ \A j \in (i + CodeLen + 1)..Len(t) : t[j] \in WhiteSpace}

EightDigits(text) == text.t = "str" /\ PadSplit(text.v) # {}

CodeOf(text) ==
    LET i == CHOOSE i \in PadSplit(text.v) : TRUE IN SubSeq(text.v, i + 1, i + CodeLen)

(***************************************************************************)
(* C1. part_000: a run of processIncomingMessage on an 8-digit text sends  *)
(* at most one acknowledgment and at most one final message, and once it   *)
(* is over it has sent exactly one acknowledgment: one or two messages in  *)
(* all, never none.                                                        *)
(***************************************************************************)
C1_OneAckAtMostOneFinal ==
    \A h \in Handlers :
        LET s == handlers[h]
        IN  variant = "part_000" =>
            \A k \in 1..Len(s.runs) :
                EightDigits(s.runs[k].text) =>
                    /\ KindCount(s, k, {"ack"}) <= 1
                    /\ KindCount(s, k, FinalKinds) <= 1
                    /\ KindCount(s, k, {"help"}) = 0
                    /\ RunOver(s, k) =>
                          /\ KindCount(s, k, {"ack"}) = 1
                          /\ Len(SendsOf(s, k)) \in {1, 2}

(***************************************************************************)
(* C2. A run on an 8-digit text whose processing call failed does not      *)
(* bring the process down, and the final message it sends is the fallback  *)
(* text with the approval code, addressed to the sender.                   *)
(***************************************************************************)
C2_FailureGivesFallback ==
    \A h \in Handlers :
        LET s == handlers[h]
        IN  \A k \in 1..Len(s.runs) :
                (EightDigits(s.runs[k].text) /\ s.runs[k].out.why \in ApiFailures) =>
                    /\ ~CrashedIn(s, k)
                    /\ KindCount(s, k, {"result", "error"}) = 0
                    /\ Returned(s, k) =>
                          /\ KindCount(s, k, {"fallback"}) = 1
                          /\ SendsOf(s, k)[Len(SendsOf(s, k))].msg
                                = fallbackMessage(CodeOf(s.runs[k].text))
                          /\ SendsOf(s, k)[Len(SendsOf(s, k))].to = s.runs[k].from

(***************************************************************************)
(* C3. In a handler's log the 200 response comes before every processing   *)
(* call and every delivery call.                                           *)
(***************************************************************************)
C3_ResponseBeforeDownstream ==
    \A h \in Handlers :
        LET s == handlers[h]
        IN  \A i \in 1..Len(s.log) :
                s.log[i].e \in {"process", "send"} =>
                    /\ \E j \in 1..(i - 1) : s.log[j].e = "respond"
                    /\ Len(s.resp) >= 1
                    /\ s.resp[1] = Success200

C3_Witness ==
    \E h \in Handlers :
        LET s == handlers[h]
        IN  /\ Len(s.log) >= 4
            /\ s.log[1].e = "respond"
            /\ \E i, j \in 2..Len(s.log) : s.log[i].e = "process" /\ s.log[j].e = "send"

(***************************************************************************)
(* C4. part_000: a POST is answered exactly once, with 200 and the fixed   *)
(* body, whatever the payload: an error of the extraction, the outcome of  *)
(* the downstream calls and the end of the handler leave the response as   *)
(* it is.  (The same holds of webhook_server wherever its handler runs.)   *)
(***************************************************************************)
C4_AlwaysOne200 ==
    \A h \in Handlers :
        LET s == handlers[h]
        IN  (s.hst # "idle" /\ (variant = "part_000" \/ s.log # <<>>)) =>
                s.resp = <<Success200>>

C4_Witness ==
    \E h \in Handlers :
        LET s == handlers[h]
        IN  /\ variant = "part_000"
            /\ s.hst = "done"
            /\ s.caught
            /\ Len(s.runs) = 1
            /\ s.runs[1].out.why = "timeout"
            /\ s.resp = <<Success200>>

(***************************************************************************)
(* C5. A run on a text that is not 8 digits inside white space sends the   *)
(* help template to the sender, once, sends nothing else and makes no      *)
(* processing call; a run on 8 digits inside white space makes the         *)
(* processing call with the 8 digits and sends no help.                    *)
(***************************************************************************)
C5_HelpForInvalid ==
    \A h \in Handlers :
        LET s == handlers[h]
        IN  \A k \in 1..Len(s.runs) :
                LET text == s.runs[k].text
                IN  /\ (text.t = "str" /\ ~EightDigits(text)) =>
                          /\ Len(SendsOf(s, k)) = 1
                          /\ SendsOf(s, k)[1].msg = helpMessage
                          /\ SendsOf(s, k)[1].to = s.runs[k].from
                          /\ Len(EventsOf(s, k, "process")) = 0
                    /\ EightDigits(text) =>
                          /\ KindCount(s, k, {"help"}) = 0
                          /\ Len(EventsOf(s, k, "process")) = 1
                          /\ EventsOf(s, k, "process")[1].msg = processingRequest(CodeOf(text))

C5_Witness ==
    \E h \in Handlers :
        LET s == handlers[h]
        IN  /\ s.hst = "done"
            /\ Len(s.runs) = 1
            /\ s.runs[1].text = Str(<<"8", "8", "8", "2", "5", "4", "8", "1", "0">>)
            /\ Returned(s, 1)
            /\ Len(SendsOf(s, 1)) = 1
            /\ SendsOf(s, 1)[1].msg.kind = "help"

(***************************************************************************)
(* C6 (as amended). The text messages of one notification are processed    *)
(* one after the other: the events of two runs of one handler never        *)
(* interleave, and when a later run starts, the earlier one has returned,  *)
(* with its processing call settled and its final message sent if its text *)
(* was 8 digits.  Only runs of different notifications overlap.            *)
(***************************************************************************)
C6_SequentialWithinNotification ==
    \A h \in Handlers :
        LET s == handlers[h]
        IN  /\ \A i, j \in 1..Len(s.log) : i < j => s.log[i].run <= s.log[j].run
            /\ \A k \in 1..(Len(s.runs) - 1) :
                  /\ Returned(s, k)
                  /\ EightDigits(s.runs[k].text) =>
                        /\ s.runs[k].out # NoOutcome
                        /\ KindCount(s, k, FinalKinds) = 1

\* The second message of a notification is being processed after the first
\* one's run has ended, while a run of another notification is under way.
C6_Witness ==
    \E h, g \in Handlers :
        /\ h # g
        /\ Len(handlers[h].runs) = 2
        /\ EightDigits(handlers[h].runs[1].text)
        /\ handlers[h].pc = "awaitApi"
        /\ Len(handlers[g].runs) = 1
        /\ handlers[g].pc = "awaitApi"

\* C6 as stated: the messages of a notification are dispatched as concurrent
\* tasks, so that once the handler waits, none of them is left to be started.
C6_LaterStartsWithoutWaiting ==
    \A h \in Handlers : handlers[h].hst = "active" => Len(handlers[h].todo) = 0

\* The result is absent, or has no summary text or an empty one.
NoSummary(d) ==
    ~(d.t = "obj" /\ d.v["ui_output_8"].t = "str" /\ Len(d.v["ui_output_8"].v) > 0)

(***************************************************************************)
(* C7. A run on an 8-digit text whose processing call succeeded with a     *)
(* result that is absent, or has no summary or an empty one, sends the     *)
(* generic error text as its final message, once, to the sender: neither   *)
(* the result template nor the fallback text.                              *)
(***************************************************************************)
C7_MalformedGivesError ==
    \A h \in Handlers :
        LET s == handlers[h]
        IN  \A k \in 1..Len(s.runs) :
                (EightDigits(s.runs[k].text) /\ s.runs[k].out.ok /\ NoSummary(s.runs[k].out.data)) =>
                    /\ KindCount(s, k, {"result", "fallback"}) = 0
                    /\ KindCount(s, k, {"error"}) <= 1
                    /\ Returned(s, k) =>
                          /\ KindCount(s, k, {"error"}) = 1
                          /\ SendsOf(s, k)[Len(SendsOf(s, k))].msg = errorMessage(FailedToProcess)
                          /\ SendsOf(s, k)[Len(SendsOf(s, k))].to = s.runs[k].from

C7_Witness ==
    \E h \in Handlers :
        LET s == handlers[h]
        IN  /\ Len(s.runs) = 1
            /\ Returned(s, 1)
            /\ s.runs[1].out.ok
            /\ s.runs[1].out.data.t = "obj"
            /\ s.runs[1].out.data.v["ui_output_8"] = Str(<<>>)
            /\ KindCount(s, 1, {"error"}) = 1

(***************************************************************************)
(* The final message for a result with a summary.                          *)
(***************************************************************************)
\* The status the endpoint returned (no letter when it returned none).
ReturnedStatus(d) ==
    IF d.v["overall_response"].t = "str" THEN d.v["overall_response"].v ELSE <<>>

\* The glyph table of the claim.
GlyphOf(status) ==
    CASE status = <<"A">> -> "CHECK_MARK"
      [] status = <<"D">> -> "CROSS"
      [] status \in {<<"F">>, <<"P">>} -> "WARNING"
      [] OTHER -> "CLIPBOARD"

ResultMessages(s, k) ==
    SelectSeq(s.log, LAMBDA x : x.run = k /\ x.e = "send" /\ x.msg.kind \in FinalKinds)

\* What the message shows: an absent or empty returned status becomes "A".
ShownStatus(d) == IF ReturnedStatus(d) = <<>> THEN <<"A">> ELSE ReturnedStatus(d)

\* C8 as stated: the final message embeds the approval code, the summary
\* verbatim and the returned status, led by the glyph the table gives for the
\* returned status, the generic glyph for an absent or empty one.
C8_GlyphOfReturnedStatus ==
    \A h \in Handlers :
        LET s == handlers[h]
        IN  \A k \in 1..Len(s.runs) :
                (EightDigits(s.runs[k].text) /\ s.runs[k].out.ok /\ ~NoSummary(s.runs[k].out.data)) =>
                    \A i \in 1..Len(ResultMessages(s, k)) :
                        LET m == ResultMessages(s, k)[i].msg
                            d == s.runs[k].out.data
                        IN  /\ m.kind = "result"
                            /\ m.code = CodeOf(s.runs[k].text)
                            /\ m.text = d.v["ui_output_8"].v
                            /\ m.status = ReturnedStatus(d)
                            /\ m.emoji = GlyphOf(ReturnedStatus(d))

\* C8 (as amended): the final message, sent once to the sender, embeds the
\* approval code and the summary verbatim.  An absent or empty returned status
\* is first replaced by "A"; the message shows that status and the glyph the
\* table gives for it, unless it is a name inherited from Object.prototype,
\* for which the lookup yields no glyph at all.
C8_GlyphOfDefaultedStatus ==
    \A h \in Handlers :
        LET s == handlers[h]
        IN  \A k \in 1..Len(s.runs) :
                (EightDigits(s.runs[k].text) /\ s.runs[k].out.ok /\ ~NoSummary(s.runs[k].out.data)) =>
                    /\ Len(ResultMessages(s, k)) <= 1
                    /\ Returned(s, k) => Len(ResultMessages(s, k)) = 1
                    /\ \A i \in 1..Len(ResultMessages(s, k)) :
                        LET m == ResultMessages(s, k)[i].msg
                            d == s.runs[k].out.data
                        IN  /\ m.kind = "result"
                            /\ ResultMessages(s, k)[i].to = s.runs[k].from
                            /\ m.code = CodeOf(s.runs[k].text)
                            /\ m.text = d.v["ui_output_8"].v
                            /\ m.status = ShownStatus(d)
                            /\ IF ShownStatus(d) \in ObjectPrototypeKeys
                               THEN m.emoji \notin {"CHECK_MARK", "CROSS", "WARNING", "CLIPBOARD"}
                               ELSE m.emoji = GlyphOf(ShownStatus(d))

C8_Witness ==
    \E h \in Handlers :
        LET s == handlers[h]
        IN  /\ Len(s.runs) = 1
            /\ Returned(s, 1)
            /\ s.runs[1].out.ok
            /\ ~NoSummary(s.runs[1].out.data)
            /\ s.runs[1].out.data.v["overall_response"].t = "absent"
            /\ Len(ResultMessages(s, 1)) = 1
            /\ ResultMessages(s, 1)[1].msg.emoji = "CHECK_MARK"
            /\ ResultMessages(s, 1)[1].msg.status = <<"A">>

(***************************************************************************)
(* C9. A verification GET on / or /webhook is answered 200 with the        *)
(* challenge if mode is "subscribe" and the token is the configured one,   *)
(* and 403 with the fixed text otherwise.                                  *)
(***************************************************************************)
C9_VerificationOnBothPaths ==
    lastVerify # NoVerify =>
        IF lastVerify.mode = "subscribe" /\ lastVerify.token = verifyToken
        THEN /\ lastVerify.status = 200
             /\ lastVerify.body = (IF lastVerify.challenge = NoParam THEN "" ELSE lastVerify.challenge)
        ELSE /\ lastVerify.status = 403
             /\ lastVerify.body = "Verification failed"

(***************************************************************************)
(* The notifications in which every level is of the expected kind or       *)
(* absent, and their messages by position.                                 *)
(***************************************************************************)
MessageOk(m) == m.t = "obj" /\ Get(m, "text").t \in {"absent", "obj"}

\* x is absent, or a list of messages.
MessagesOk(x) ==
    x.t = "absent" \/ (x.t = "list" /\ \A i \in 1..Len(x.v) : MessageOk(x.v[i]))

ChangeOk(c) ==
    /\ c.t = "obj"
    /\ Get(c, "value").t \in {"absent", "obj"}
    /\ MessagesOk(Get(Get(c, "value"), "messages"))

ChangesOk(x) ==
    x.t = "absent" \/ (x.t = "list" /\ \A i \in 1..Len(x.v) : ChangeOk(x.v[i]))

EntryOk(e) == e.t = "obj" /\ ChangesOk(Get(e, "changes"))

EntriesOk(x) ==
    x.t = "absent" \/ (x.t = "list" /\ \A i \in 1..Len(x.v) : EntryOk(x.v[i]))

ExpectedShape(data) == data.t = "obj" /\ EntriesOk(Get(data, "entry"))

\* The items of a level, none when the level is absent.
Level(x) == IF x.t = "list" THEN x.v ELSE <<>>

MessageAt(data, p) ==
    Level(Get(Get(Level(Get(Level(Get(data, "entry"))[p[1]], "changes"))[p[2]], "value"),
              "messages"))[p[3]]

\* The positions <<entry, change, message>> of the messages of type "text".
TextPositions(data) ==
    {p \in (1..3) \X (1..3) \X (1..3) :
        /\ p[1] <= Len(Level(Get(data, "entry")))
        /\ p[2] <= Len(Level(Get(Level(Get(data, "entry"))[p[1]], "changes")))
        /\ p[3] <= Len(Level(Get(Get(Level(Get(Level(Get(data, "entry"))[p[1]], "changes"))[p[2]],
                                     "value"), "messages")))
        /\ Get(MessageAt(data, p), "type") = Str(TEXT)}

\* The text body of a message, the empty string when it has none.
BodyOf(m) ==
    IF Get(Get(m, "text"), "body").t = "absent" THEN Str(<<>>) ELSE Get(Get(m, "text"), "body")

(***************************************************************************)
(* C10. For a notification of the expected shape the handler catches no    *)
(* error, calls processIncomingMessage once for each message of type       *)
(* "text", with its sender and text body, and for nothing else; every      *)
(* outbound message belongs to one of these calls and goes to its sender.  *)
(***************************************************************************)
C10_OneCallPerTextMessage ==
    \A h \in Handlers :
        LET s == handlers[h]
            n == Len(s.runs)
            T == TextPositions(s.data)
        IN  (s.log # <<>> /\ ExpectedShape(s.data)) =>
                /\ ~s.caught
                /\ \E f \in [1..n -> T] :
                      /\ \A j, k \in 1..n : f[j] = f[k] => j = k
                      /\ \A k \in 1..n :
                            /\ s.runs[k].from = Get(MessageAt(s.data, f[k]), "from")
                            /\ s.runs[k].text = BodyOf(MessageAt(s.data, f[k]))
                /\ s.hst = "done" => n = Cardinality(T)
                /\ \A i \in 1..Len(s.log) :
                      s.log[i].e \in {"send", "process"} =>
                          /\ s.log[i].run \in 1..n
                          /\ s.log[i].e = "send" => s.log[i].to = s.runs[s.log[i].run].from

\* A notification with an image and a text message has been handled.
C10_Witness ==
    \E h \in Handlers :
        LET s == handlers[h]
        IN  /\ s.hst = "done"
            /\ ExpectedShape(s.data)
            /\ TextPositions(s.data) = {<<1, 1, 2>>}
            /\ Get(MessageAt(s.data, <<1, 1, 1>>), "type") = Str(<<"i", "m", "g">>)
            /\ Len(s.runs) = 1
            /\ Returned(s, 1)

(***************************************************************************)
(* The events of one run, in order (respond and caught are the handler's). *)
(***************************************************************************)
RunLog(s, k) == SelectSeq(s.log, LAMBDA x : x.run = k /\ x.e \notin {"respond", "caught"})

\* The current run's processing call has failed before the run awaited it.
FailedEarly(s) == s.api = "rejected" /\ s.settledAt \in {"delay", "ack"}

(***************************************************************************)
(* C11. part_000: when the processing call of a run fails while the run    *)
(* waits for the 500 ms timer or for the acknowledgment's delivery, the     *)
(* process keeps running, the acknowledgment is sent once, and once the    *)
(* run has awaited the call it has sent the fallback text as its one       *)
(* final message.                                                          *)
(***************************************************************************)
C11_EarlyFailureIsConsumed ==
    \A h \in Handlers :
        LET s == handlers[h]
            k == Len(s.runs)
        IN  (variant = "part_000" /\ FailedEarly(s)) =>
                /\ ~crashed
                /\ KindCount(s, k, {"ack"}) <= 1
                /\ KindCount(s, k, {"result", "error", "help"}) = 0
                /\ (s.pc = "sending" /\ s.after = "return") =>
                      /\ KindCount(s, k, {"ack"}) = 1
                      /\ KindCount(s, k, {"fallback"}) = 1
                      /\ SendsOf(s, k)[2].msg = fallbackMessage(s.code)
                      /\ SendsOf(s, k)[2].to = s.runs[k].from

\* The order of events in a run of part_000 on an 8-digit text.
RunOrder ==
    <<"invoke", "process", "timer", "send", "delivered", "send", "delivered", "return">>

(***************************************************************************)
(* C12. part_000: the events of a run on an 8-digit text come in one       *)
(* order: the processing call is issued, the timer fires, the             *)
(* acknowledgment is sent, its delivery comes to an end, the final message *)
(* is sent, its delivery comes to an end, the run returns.  No final       *)
(* message is sent before the acknowledgment's delivery has ended,         *)
(* whenever the processing call was settled.                               *)
(***************************************************************************)
C12_AckDeliveredBeforeFinal ==
    \A h \in Handlers :
        LET s == handlers[h]
        IN  variant = "part_000" =>
            \A k \in 1..Len(s.runs) :
                EightDigits(s.runs[k].text) =>
                    LET ev == RunLog(s, k)
                    IN  /\ Len(ev) <= Len(RunOrder)
                        /\ \A i \in 1..Len(ev) : ev[i].e = RunOrder[i]
                        /\ Len(ev) >= 4 => ev[4].msg = acknowledgment(CodeOf(s.runs[k].text))
                        /\ Len(ev) >= 6 => ev[6].msg.kind \in FinalKinds

\* The processing call was fulfilled during the delay, the acknowledgment's
\* delivery has failed, and the final message is on its way.
C12_Witness ==
    \E h \in Handlers :
        LET s == handlers[h]
            ev == RunLog(s, Len(s.runs))
        IN  /\ variant = "part_000"
            /\ s.api = "resolved"
            /\ s.settledAt = "delay"
            /\ Len(ev) = 6
            /\ ev[4].msg.kind = "ack"
            /\ ev[5].res = "error"
            /\ ev[6].msg.kind = "result"

\* The calls of processIncomingMessage one notification of SpecLive leads to.
LiveRuns == 1..Len(Extract(CorePayloads[1]).calls)

(***************************************************************************)
(* C13. With the timer firing and every HTTP call coming to an end, every  *)
(* run on an 8-digit text eventually has sent one final message (result,   *)
(* error or fallback) and returned.                                        *)
(***************************************************************************)
C13_EveryRunSendsFinalAndReturns ==
    \A h \in Handlers, k \in LiveRuns :
        (Len(handlers[h].runs) >= k /\ EightDigits(handlers[h].runs[k].text))
            ~> (Returned(handlers[h], k) /\ KindCount(handlers[h], k, FinalKinds) = 1)

(***************************************************************************)
(* What a run is to send, from its arguments and the outcome of its        *)
(* processing call alone.                                                  *)
(***************************************************************************)
\* The one message that ends the run.
ExpectedFinal(text, out) ==
    IF text.t # "str" THEN errorMessage(AnErrorOccurred)
    ELSE IF ~EightDigits(text) THEN helpMessage
    ELSE IF ~out.ok THEN fallbackMessage(CodeOf(text))
    ELSE IF NoSummary(out.data) THEN errorMessage(FailedToProcess)
    ELSE [kind |-> "result",
          emoji |-> IF ShownStatus(out.data) \in ObjectPrototypeKeys
                    THEN "NATIVE_FUNCTION_SOURCE"
                    ELSE GlyphOf(ShownStatus(out.data)),
          code |-> CodeOf(text),
          status |-> ShownStatus(out.data),
          text |-> out.data.v["ui_output_8"].v]

\* part_000 sends an acknowledgment first when the text is 8 digits.
ExpectedAck(v, text) ==
    IF v = "part_000" /\ EightDigits(text) THEN <<acknowledgment(CodeOf(text))>> ELSE <<>>

ExpectedSends(v, run) == ExpectedAck(v, run.text) \o <<ExpectedFinal(run.text, run.out)>>

\* The messages run k has sent are the first ones of those it is to send,
\* each to the run's sender.
SendsAsExpected(s, k, v) ==
    /\ Len(SendsOf(s, k)) <= Len(ExpectedSends(v, s.runs[k]))
    /\ \A i \in 1..Len(SendsOf(s, k)) :
          /\ SendsOf(s, k)[i].msg = ExpectedSends(v, s.runs[k])[i]
          /\ SendsOf(s, k)[i].to = s.runs[k].from

\* A delivery of run k has failed: a rejection, or a status other than 200.
DeliveryFailed(s, k) ==
    \E i \in 1..Len(EventsOf(s, k, "delivered")) : EventsOf(s, k, "delivered")[i].res # "200"

(***************************************************************************)
(* C14. A run with a failed delivery sends what it would have sent         *)
(* without the failure: every message is attempted once, none is added,    *)
(* the handler's catch block does not run because of it, and after the     *)
(* acknowledgment's delivery has ended, however it ended, the run awaits   *)
(* the processing call or has sent the final message.                      *)
(***************************************************************************)
C14_FailedDeliveryAbsorbed ==
    \A h \in Handlers :
        LET s == handlers[h]
        IN  \A k \in 1..Len(s.runs) :
                DeliveryFailed(s, k) =>
                    LET sends == SendsOf(s, k)
                        dl == EventsOf(s, k, "delivered")
                    IN  /\ SendsAsExpected(s, k, variant)
                        /\ Len(dl) \in {Len(sends) - 1, Len(sends)}
                        /\ s.caught => s.threw
                        /\ Returned(s, k) =>
                              /\ Len(sends) = Len(ExpectedSends(variant, s.runs[k]))
                              /\ Len(dl) = Len(sends)
                        /\ (variant = "part_000" /\ EightDigits(s.runs[k].text)) =>
                              \/ Len(sends) = 2
                              \/ k = Len(s.runs) /\ s.pc = "awaitApi" /\ s.api = "pending"

\* The acknowledgment's delivery was rejected, the final message's delivery
\* was answered with another status than 200, and the run has returned.
C14_Witness ==
    \E h \in Handlers :
        LET s == handlers[h]
        IN  /\ Len(s.runs) = 1
            /\ Returned(s, 1)
            /\ Len(SendsOf(s, 1)) = 2
            /\ SendsOf(s, 1)[1].msg.kind = "ack"
            /\ SendsOf(s, 1)[2].msg.kind = "result"
            /\ EventsOf(s, 1, "delivered")[1].res = "error"
            /\ EventsOf(s, 1, "delivered")[2].res = "2xx"

(***************************************************************************)
(* C15. A run on an 8-digit text issues the processing call once, with     *)
(* the 8 digits, at its start and never again, whatever the call comes     *)
(* to; a run on any other text issues none.                                *)
(***************************************************************************)
C15_OneProcessingCallPerRun ==
    \A h \in Handlers :
        LET s == handlers[h]
        IN  \A k \in 1..Len(s.runs) :
                IF EightDigits(s.runs[k].text)
                THEN /\ Len(EventsOf(s, k, "process")) = 1
                     /\ EventsOf(s, k, "process")[1].msg = processingRequest(CodeOf(s.runs[k].text))
                ELSE Len(EventsOf(s, k, "process")) = 0

\* A run whose processing call timed out has sent the fallback and returned.
C15_Witness ==
    \E h \in Handlers :
        LET s == handlers[h]
        IN  /\ Len(s.runs) = 1
            /\ Returned(s, 1)
            /\ EightDigits(s.runs[1].text)
            /\ s.runs[1].out.why = "timeout"
            /\ KindCount(s, 1, {"fallback"}) = 1
            /\ Len(EventsOf(s, 1, "process")) = 1

\* The order of events in a run that sends one message and returns.
ShortOrder == <<"invoke", "send", "delivered", "return">>

(***************************************************************************)
(* C16. A run whose text is not a string (trim is not a function) sends    *)
(* the generic error text "An error occurred" to the sender, once and as   *)
(* its only message, issues no processing call, and returns to the         *)
(* handler, whose catch block does not run because of it.                  *)
(***************************************************************************)
C16_InternalErrorGivesGenericError ==
    \A h \in Handlers :
        LET s == handlers[h]
        IN  \A k \in 1..Len(s.runs) :
                s.runs[k].text.t # "str" =>
                    /\ Len(SendsOf(s, k)) = 1
                    /\ SendsOf(s, k)[1].msg = errorMessage(AnErrorOccurred)
                    /\ SendsOf(s, k)[1].to = s.runs[k].from
                    /\ Len(EventsOf(s, k, "process")) = 0
                    /\ Len(RunLog(s, k)) <= Len(ShortOrder)
                    /\ \A i \in 1..Len(RunLog(s, k)) : RunLog(s, k)[i].e = ShortOrder[i]
                    /\ s.caught => s.threw
                    /\ (k < Len(s.runs) \/ s.hst = "done") => Returned(s, k)

\* A text message whose body is a JSON number has been handled.
C16_Witness ==
    \E h \in Handlers :
        LET s == handlers[h]
        IN  /\ s.hst = "done"
            /\ Len(s.runs) = 1
            /\ s.runs[1].text.t = "num"
            /\ Returned(s, 1)
            /\ KindCount(s, 1, {"error"}) = 1

(***************************************************************************)
(* C17. Runs of notifications handled at the same time do not interfere:   *)
(* what a run has sent is the beginning of what its own text and its own   *)
(* processing outcome call for, addressed to its own sender and complete   *)
(* once it has returned, and no run is cut short by the failure of         *)
(* another run's call.                                                     *)
(***************************************************************************)
C17_RunsDoNotInterfere ==
    \A h \in Handlers :
        LET s == handlers[h]
        IN  \A k \in 1..Len(s.runs) :
                /\ SendsAsExpected(s, k, variant)
                /\ Returned(s, k) => Len(SendsOf(s, k)) = Len(ExpectedSends(variant, s.runs[k]))
                /\ crashed => RunOver(s, k)

\* The messages of run k other than the acknowledgment.
WithoutAck(s, k) == SelectSeq(s.log, LAMBDA x : x.run = k /\ x.e = "send" /\ x.msg.kind # "ack")

(***************************************************************************)
(* C18. The two variants agree up to the acknowledgment: in either one, a  *)
(* run that is over has issued the processing call its text calls for,     *)
(* and has sent to its sender the one message that its text and the        *)
(* call's outcome call for; part_000 has sent one acknowledgment before it *)
(* when the text is 8 digits, and webhook_server.js none.                  *)
(***************************************************************************)
C18_VariantsAgreeUpToAck ==
    \A h \in Handlers :
        LET s == handlers[h]
        IN  \A k \in 1..Len(s.runs) :
                RunOver(s, k) =>
                    /\ Len(WithoutAck(s, k)) = 1
                    /\ WithoutAck(s, k)[1].msg = ExpectedFinal(s.runs[k].text, s.runs[k].out)
                    /\ WithoutAck(s, k)[1].to = s.runs[k].from
                    /\ KindCount(s, k, {"ack"}) = Len(ExpectedAck(variant, s.runs[k].text))
                    /\ Len(EventsOf(s, k, "process")) = (IF EightDigits(s.runs[k].text) THEN 1 ELSE 0)
                    /\ \A i \in 1..Len(EventsOf(s, k, "process")) :
                          EventsOf(s, k, "process")[i].msg = processingRequest(CodeOf(s.runs[k].text))

====
